---- MODULE Spec2Model ----
(***************************************************************************)
(* Model of jupyterlite_xeus_python/env_build_addon.py: the XeusPythonEnv  *)
(* addon.  Two specifications share the module:                            *)
(*   Spec        one addon instance: __init__, the post_build generator    *)
(*               (with create_env and its backend process invocations),    *)
(*               the execution of the yielded doit tasks, and __del__;     *)
(*   SpecDedupe  dedupe_federated_extensions applied repeatedly to a       *)
(*               manifest drawn from a bounded set, over a fixed output    *)
(*               tree.                                                     *)
(***************************************************************************)
EXTENDS Integers, Sequences, FiniteSets, TLC

VARIABLES
    flags,                \* the four module-level *_AVAILABLE flags
    environ,              \* os.environ["CONDARC"], None when unset
    condarc0,             \* history: CONDARC when the instance was constructed
    packages,             \* trait XeusPythonEnv.packages
    xeus_python_version,  \* trait XeusPythonEnv.xeus_python_version
    host_extensions,      \* names of the package.json under ENV_EXTENSIONS
    pc,                   \* position of the instance / of post_build
    orig_config,          \* self.orig_config
    prefix,               \* the directory self.prefix_path
    running,              \* the backend invocation in progress, NoCall if none
    calls,                \* log of finished backend invocations
    error,                \* the exception that ended post_build, None if none
    filter_loaded,        \* pkg_file_filter has been loaded
    packed,               \* pack_environment has produced python_data.*
    tasks,                \* the doit tasks yielded by post_build, in order
    done,                 \* indices of the tasks whose action has run
    output,               \* the output tree under output_extensions
    config,               \* the manifest handed to dedupe_federated_extensions
    input,                \* history: the manifest before the first pass
    prev,                 \* history: the manifest before the latest pass
    passes,               \* number of dedupe passes applied
    files                 \* <<name, load>> pairs existing under output_extensions

build_vars == <<flags, environ, condarc0, packages, xeus_python_version,
                host_extensions, pc, orig_config, prefix, running, calls, error,
                filter_loaded, packed, tasks, done, output>>
dedupe_vars == <<config, input, prev, passes, files>>
vars == <<build_vars, dedupe_vars>>

None == "None"

\* No backend invocation in progress.
NoCall == [backend |-> None, cmd |-> None]

----------------------------------------------------------------------------
(* Module-level constants of the source.                                   *)

JUPYTERLITE_XEUS_PYTHON == "@jupyterlite/xeus-python-kernel"
PLATFORM == "emscripten-32"
FEDERATED_EXTENSIONS == "federated_extensions"

\* str(self.prefix_path / ".condarc")
CondarcPath == "/tmp/xeus-python-kernel/envs/xeus-python-kernel/.condarc"

\* A labextension other than the kernel's, and a CONDARC set by the user.
OtherExtension == "@jupyterlab/other"
UserCondarc == "/home/user/.condarc"

ExtNames == {JUPYTERLITE_XEUS_PYTHON, OtherExtension}
FixedFiles == {"python_data.js", "python_data.data", "xpython_wasm.js", "xpython_wasm.wasm"}

----------------------------------------------------------------------------
(* Directories.                                                            *)

\* self.prefix_path: whether it exists, the content of its .condarc file
\* (None when there is none) and the labextensions installed under
\* share/jupyter/labextensions, as the names of their package.json.
NoPrefix == [exists |-> FALSE, condarc |-> None, extensions |-> <<>>]
StalePrefix == [exists |-> TRUE, condarc |-> PLATFORM, extensions |-> <<OtherExtension>>]

\* The output tree under output_extensions: for every labextension the origin
\* of the copy present ("absent" when its package.json is not there), and the
\* content of the four files under @jupyterlite/xeus-python-kernel/static.
EmptyOutput ==
    [ext |-> [n \in ExtNames |-> "absent"], static |-> [f \in FixedFiles |-> "absent"]]

Range(s) == {s[i] : i \in DOMAIN s}

\* The tree after the host has already placed its own labextensions.
OutputWith(exts) ==
    [ext |-> [n \in ExtNames |-> IF n \in Range(exts) THEN "host" ELSE "absent"],
     static |-> [f \in FixedFiles |->
                    IF JUPYTERLITE_XEUS_PYTHON \in Range(exts) THEN "bundled" ELSE "absent"]]

\* The labextension lists env_extensions may find, under the host's
\* ENV_EXTENSIONS and under the provisioned prefix.
HostExtensionChoices == {<<>>, <<OtherExtension, JUPYTERLITE_XEUS_PYTHON>>}
EnvExtensionChoices == {<<>>, <<OtherExtension>>}

----------------------------------------------------------------------------
(* create_env: the backend is chosen from the four flags alone.            *)

BackendWrongOrder(f) ==
    IF f.MAMBA_PYTHON_AVAILABLE THEN "mamba.api"
    ELSE IF f.MAMBA_AVAILABLE THEN "mamba"
    ELSE IF f.CONDA_AVAILABLE THEN "conda"
    ELSE IF f.MICROMAMBA_AVAILABLE THEN "micromamba"
    ELSE None

Backend(f) ==
    IF f.MAMBA_PYTHON_AVAILABLE THEN "mamba.api"
    ELSE IF f.MAMBA_AVAILABLE THEN "mamba"
    ELSE IF f.MICROMAMBA_AVAILABLE THEN "micromamba"
    ELSE IF f.CONDA_AVAILABLE THEN "conda"
    ELSE None

\* The backends that go through _create_env_with_config.
WithConfig == {"mamba", "conda"}

\* run(..., check=True) raises CalledProcessError on a non-zero exit; the
\* in-process mamba_create raises likewise when it fails.
UncheckedExit(ok) == FALSE

CalledProcessError(ok) == ~ok

\* _create_config: the .condarc content and the new value of CONDARC.
ConfigNotExported(env) == [condarc |-> PLATFORM, CONDARC |-> env]

_create_config(env) == [condarc |-> PLATFORM, CONDARC |-> CondarcPath]

\* __del__: the value CONDARC is left with.
RestoreWithoutUnset(orig, env) == IF orig # None THEN orig ELSE env

RestoredConfig(orig, env) ==
    IF orig # None THEN orig ELSE IF env # None THEN None ELSE env

\* post_build: "if not self.packages and not self.xeus_python_version".
BailOnlyOnVersion(pkgs, version) == pkgs = <<>> /\ ~(version = "")

BailEarly(pkgs, version) == pkgs = <<>> /\ version = ""

----------------------------------------------------------------------------
(* The doit tasks post_build yields.                                       *)

\* safe_copy_extension: one task copying the labextension directory found
\* under src ("host" or "env") to output_extensions / stem; its file_dep are
\* the files of the source directory.
safe_copy_extension(src, stem) ==
    [name |-> <<"xeus:copy:ext", stem>>, action |-> "copy_dir", src |-> src,
     dest |-> stem, file_dep |-> {<<src, stem>>}]

\* The tasks copying one fixed artifact into the kernel's static directory;
\* they declare no file_dep.
copy_file_task(file) ==
    [name |-> <<"xeus:copy", file>>, action |-> "copy_file", src |-> "packed",
     dest |-> file, file_dep |-> {}]

\* env_extensions(manager.output_dir / LAB_EXTENSIONS): the package.json
\* present in the output tree when the task is built.
lab_extensions(out) == {<<"output", n>> : n \in {m \in ExtNames : out.ext[m] # "absent"}}

patch_task(out) ==
    [name |-> <<"patch:xeus", "">>, action |-> "patch_jupyterlite_json", src |-> "output",
     dest |-> "jupyterlite.json",
     file_dep |-> lab_extensions(out) \cup {<<"output", "jupyterlite.json">>}]

\* The copy tasks of the labextensions in exts, in order; with only_kernel
\* the ones named JUPYTERLITE_XEUS_PYTHON alone.
RECURSIVE copy_tasks(_, _, _)
copy_tasks(src, exts, only_kernel) ==
    IF exts = <<>> THEN <<>>
    ELSE (IF only_kernel /\ Head(exts) # JUPYTERLITE_XEUS_PYTHON
          THEN <<>>
          ELSE <<safe_copy_extension(src, Head(exts))>>)
         \o copy_tasks(src, Tail(exts), only_kernel)

\* Whether a declared file dependency is there.
FileExists(p) ==
    CASE p[1] = "host" -> p[2] \in Range(host_extensions)
      [] p[1] = "env" -> prefix.exists /\ p[2] \in Range(prefix.extensions)
      [] p[1] = "output" ->
            IF p[2] = "jupyterlite.json" THEN TRUE ELSE output.ext[p[2]] # "absent"

\* copy_one as the task actions use it: a directory copy replaces the whole
\* destination directory by the source's (the kernel's labextension ships its
\* own static files), a file copy replaces the one file.
copy_one(out, t) ==
    CASE t.action = "copy_dir" ->
            [ext |-> [out.ext EXCEPT ![t.dest] = t.src],
             static |-> IF t.dest = JUPYTERLITE_XEUS_PYTHON
                        THEN [f \in FixedFiles |-> "bundled"]
                        ELSE out.static]
      [] t.action = "copy_file" ->
            [out EXCEPT !.static[t.dest] = t.src]
      [] OTHER -> out

----------------------------------------------------------------------------
(* dedupe_federated_extensions.                                            *)

MaxLen == 3      \* longest federated_extensions list drawn
MaxPasses == 2   \* dedupe passes applied to one manifest

\* Plugin names in the order Python compares strings, and load paths.
NamesSorted == <<"a", "b", "c">>
Names == Range(NamesSorted)
Loads == {"x.js", "y.js"}
Entries == [name : Names, load : Loads]

Ord(n) == CHOOSE i \in DOMAIN NamesSorted : NamesSorted[i] = n

SeqsUpTo(S, n) == UNION {[1..k -> S] : k \in 0..n}

\* os.path.exists(self.output_extensions / ext["name"] / ext["load"])
AlwaysExists(fs, ext) == TRUE

path_exists(fs, ext) == <<ext.name, ext.load>> \in fs

\* named[ext["name"]] = ext on an insertion-ordered dict, kept as the
\* sequence of its values: an existing key keeps its place and gets the value.
PutFirstWins(named, ext) ==
    IF \E i \in DOMAIN named : named[i].name = ext.name
    THEN named
    ELSE Append(named, ext)

dict_put(named, ext) ==
    IF \E i \in DOMAIN named : named[i].name = ext.name
    THEN [i \in DOMAIN named |-> IF named[i].name = ext.name THEN ext ELSE named[i]]
    ELSE Append(named, ext)

\* The loop over config[FEDERATED_EXTENSIONS].
RECURSIVE collect(_, _, _)
collect(exts, fs, named) ==
    IF exts = <<>> THEN named
    ELSE collect(Tail(exts), fs,
                 IF path_exists(fs, Head(exts)) THEN dict_put(named, Head(exts)) ELSE named)

\* sorted(values, key=lambda x: x["name"]): a stable sort by name.
RECURSIVE insert_sorted(_, _)
insert_sorted(s, ext) ==
    IF s = <<>> THEN <<ext>>
    ELSE IF Ord(ext.name) < Ord(Head(s).name)
         THEN <<ext>> \o s
         ELSE <<Head(s)>> \o insert_sorted(Tail(s), ext)

RECURSIVE sorted(_)
sorted(values) ==
    IF values = <<>> THEN <<>>
    ELSE insert_sorted(sorted(SubSeq(values, 1, Len(values) - 1)), values[Len(values)])

DedupeExtending(cfg, fs) ==
    IF FEDERATED_EXTENSIONS \notin DOMAIN cfg
    THEN cfg
    ELSE [cfg EXCEPT ![FEDERATED_EXTENSIONS] =
              cfg[FEDERATED_EXTENSIONS] \o sorted(collect(cfg[FEDERATED_EXTENSIONS], fs, <<>>))]

dedupe_federated_extensions(cfg, fs) ==
    IF FEDERATED_EXTENSIONS \notin DOMAIN cfg
    THEN cfg
    ELSE [cfg EXCEPT ![FEDERATED_EXTENSIONS] =
              sorted(collect(cfg[FEDERATED_EXTENSIONS], fs, <<>>))]

\* The manifests drawn: with and without the federated_extensions key.
Manifests ==
    {[appName |-> "lite"]}
    \cup {[appName |-> "lite", federated_extensions |-> l] : l \in SeqsUpTo(Entries, MaxLen)}

InitDedupe ==
    /\ config \in Manifests
    /\ input = config
    /\ prev = config
    /\ passes = 0
    /\ files \in SUBSET (Names \X Loads)

DedupeIdle ==
    /\ config = [appName |-> "lite"]
    /\ input = config
    /\ prev = config
    /\ passes = 0
    /\ files = {}

\* One call of dedupe_federated_extensions on the manifest.
Dedupe ==
    /\ passes < MaxPasses
    /\ prev' = config
    /\ config' = dedupe_federated_extensions(config, files)
    /\ passes' = passes + 1
    /\ UNCHANGED <<input, files, build_vars>>

----------------------------------------------------------------------------
(* One XeusPythonEnv instance.                                             *)

FlagSets ==
    [MAMBA_PYTHON_AVAILABLE : BOOLEAN, MAMBA_AVAILABLE : BOOLEAN,
     MICROMAMBA_AVAILABLE : BOOLEAN, CONDA_AVAILABLE : BOOLEAN]

InitBuild ==
    /\ flags \in FlagSets
    /\ environ \in {None, UserCondarc}
    /\ condarc0 = environ
    /\ packages \in {<<>>, <<"numpy">>}
    /\ xeus_python_version \in {"", "0.15.0"}
    /\ host_extensions \in HostExtensionChoices
    /\ pc = "unborn"
    /\ orig_config = None
    /\ prefix \in {NoPrefix, StalePrefix}
    /\ running = NoCall
    /\ calls = <<>>
    /\ error = None
    /\ filter_loaded = FALSE
    /\ packed = FALSE
    /\ tasks = <<>>
    /\ done = {}
    /\ output \in {EmptyOutput, OutputWith(host_extensions)}

BuildIdle ==
    /\ flags = [MAMBA_PYTHON_AVAILABLE |-> FALSE, MAMBA_AVAILABLE |-> FALSE,
                MICROMAMBA_AVAILABLE |-> FALSE, CONDA_AVAILABLE |-> FALSE]
    /\ environ = None
    /\ condarc0 = None
    /\ packages = <<>>
    /\ xeus_python_version = ""
    /\ host_extensions = <<>>
    /\ pc = "unborn"
    /\ orig_config = None
    /\ prefix = NoPrefix
    /\ running = NoCall
    /\ calls = <<>>
    /\ error = None
    /\ filter_loaded = FALSE
    /\ packed = FALSE
    /\ tasks = <<>>
    /\ done = {}
    /\ output = EmptyOutput

\* What no step of the instance changes: the flags, the traits, the host's
\* labextensions and the history of CONDARC (and the dedupe variables).
traits == <<flags, packages, xeus_python_version, host_extensions, condarc0, dedupe_vars>>

\* __init__: remove a stale envs directory, remember CONDARC.
__init__ ==
    /\ pc = "unborn"
    /\ pc' = "constructed"
    /\ prefix' = NoPrefix
    /\ orig_config' = environ
    /\ UNCHANGED <<traits, environ, running, calls, error, filter_loaded, packed,
                   tasks, done, output>>

\* post_build, first loop: the copy task of the pre-bundled kernel plugin.
post_build_known ==
    /\ pc = "constructed"
    /\ pc' = "bail_check"
    /\ tasks' = tasks \o copy_tasks("host", host_extensions, TRUE)
    /\ UNCHANGED <<traits, environ, orig_config, prefix, running, calls, error,
                   filter_loaded, packed, done, output>>

\* post_build: "return []" when there is nothing to install.
post_build_bail ==
    /\ pc = "bail_check"
    /\ BailEarly(packages, xeus_python_version)
    /\ pc' = "returned"
    /\ UNCHANGED <<traits, environ, orig_config, prefix, running, calls, error,
                   filter_loaded, packed, tasks, done, output>>

\* create_env up to the start of its first backend invocation, or its
\* RuntimeError when no backend is available.
create_env ==
    /\ pc = "bail_check"
    /\ ~BailEarly(packages, xeus_python_version)
    /\ LET b == Backend(flags) IN
         IF b = None
         THEN /\ pc' = "failed"
              /\ error' = "RuntimeError"
              /\ UNCHANGED <<running, prefix>>
         ELSE /\ pc' = "create_env"
              /\ running' = [backend |-> b, cmd |-> "create"]
              /\ prefix' = IF b = "mamba" THEN [prefix EXCEPT !.exists = TRUE] ELSE prefix
              /\ UNCHANGED error
    /\ UNCHANGED <<traits, environ, orig_config, calls, filter_loaded, packed,
                   tasks, done, output>>

\* mamba_create(...) or the single "micromamba create" invocation returns.
single_call_returns(ok) ==
    /\ pc = "create_env"
    /\ running # NoCall
    /\ running.backend \notin WithConfig
    /\ calls' = Append(calls, [backend |-> running.backend, cmd |-> running.cmd, ok |-> ok])
    /\ running' = NoCall
    /\ IF CalledProcessError(ok)
       THEN /\ pc' = "failed"
            /\ error' = "CalledProcessError"
            /\ UNCHANGED prefix
       ELSE /\ pc' = "load_filter"
            /\ \E exts \in EnvExtensionChoices :
                  prefix' = [exists |-> TRUE, condarc |-> None, extensions |-> exts]
            /\ UNCHANGED error
    /\ UNCHANGED <<traits, environ, orig_config, filter_loaded, packed, tasks, done, output>>

\* _create_env_with_config: "<conda> create" returns; on success
\* _create_config runs and "<conda> install" starts.
create_returns(ok) ==
    /\ pc = "create_env"
    /\ running # NoCall
    /\ running.backend \in WithConfig
    /\ running.cmd = "create"
    /\ calls' = Append(calls, [backend |-> running.backend, cmd |-> "create", ok |-> ok])
    /\ IF CalledProcessError(ok)
       THEN /\ pc' = "failed"
            /\ error' = "CalledProcessError"
            /\ running' = NoCall
            /\ UNCHANGED <<prefix, environ>>
       ELSE /\ prefix' = [prefix EXCEPT !.exists = TRUE,
                                        !.condarc = _create_config(environ).condarc]
            /\ environ' = _create_config(environ).CONDARC
            /\ running' = [backend |-> running.backend, cmd |-> "install"]
            /\ UNCHANGED <<pc, error>>
    /\ UNCHANGED <<traits, orig_config, filter_loaded, packed, tasks, done, output>>

\* _create_env_with_config: "<conda> install" returns.
install_returns(ok) ==
    /\ pc = "create_env"
    /\ running # NoCall
    /\ running.backend \in WithConfig
    /\ running.cmd = "install"
    /\ calls' = Append(calls, [backend |-> running.backend, cmd |-> "install", ok |-> ok])
    /\ running' = NoCall
    /\ IF CalledProcessError(ok)
       THEN /\ pc' = "failed"
            /\ error' = "CalledProcessError"
            /\ UNCHANGED prefix
       ELSE /\ pc' = "load_filter"
            /\ \E exts \in EnvExtensionChoices :
                  prefix' = [prefix EXCEPT !.extensions = exts]
            /\ UNCHANGED error
    /\ UNCHANGED <<traits, environ, orig_config, filter_loaded, packed, tasks, done, output>>

\* post_build: the filter is fetched or read; a failure propagates.
load_filter(ok) ==
    /\ pc = "load_filter"
    /\ IF ok
       THEN pc' = "pack" /\ filter_loaded' = TRUE /\ UNCHANGED error
       ELSE pc' = "failed" /\ error' = "FetchError" /\ UNCHANGED filter_loaded
    /\ UNCHANGED <<traits, environ, orig_config, prefix, running, calls, packed,
                   tasks, done, output>>

\* post_build: pack_environment.
pack_environment(ok) ==
    /\ pc = "pack"
    /\ IF ok
       THEN pc' = "harvest" /\ packed' = TRUE /\ UNCHANGED error
       ELSE pc' = "failed" /\ error' = "PackError" /\ UNCHANGED packed
    /\ UNCHANGED <<traits, environ, orig_config, prefix, running, calls, filter_loaded,
                   tasks, done, output>>

\* post_build, second loop: the copy tasks of the labextensions of the env.
post_build_env_extensions ==
    /\ pc = "harvest"
    /\ pc' = "fixed"
    /\ tasks' = tasks \o copy_tasks("env", prefix.extensions, FALSE)
    /\ UNCHANGED <<traits, environ, orig_config, prefix, running, calls, error,
                   filter_loaded, packed, done, output>>

\* post_build: the four fixed-artifact copy tasks.
post_build_fixed ==
    /\ pc = "fixed"
    /\ pc' = "patch"
    /\ tasks' = tasks \o <<copy_file_task("python_data.js"), copy_file_task("python_data.data"),
                           copy_file_task("xpython_wasm.js"), copy_file_task("xpython_wasm.wasm")>>
    /\ UNCHANGED <<traits, environ, orig_config, prefix, running, calls, error,
                   filter_loaded, packed, done, output>>

\* post_build: the patch:xeus task, then the generator is exhausted.
post_build_patch ==
    /\ pc = "patch"
    /\ pc' = "done"
    /\ tasks' = Append(tasks, patch_task(output))
    /\ UNCHANGED <<traits, environ, orig_config, prefix, running, calls, error,
                   filter_loaded, packed, done, output>>

\* The scheduler runs the action of a task not yet run whose declared file
\* dependencies exist; nothing else constrains the order.
run_task(i) ==
    /\ pc \in {"returned", "done"}
    /\ i \in DOMAIN tasks
    /\ i \notin done
    /\ \A p \in tasks[i].file_dep : FileExists(p)
    /\ output' = copy_one(output, tasks[i])
    /\ done' = done \cup {i}
    /\ UNCHANGED <<traits, environ, orig_config, prefix, running, calls, error,
                   filter_loaded, packed, tasks, pc>>

\* __del__: remove the envs directory, restore CONDARC.  The yielded tasks
\* hold self.copy_one and self.patch_jupyterlite_json, so the instance lives
\* until they have run.
__del__ ==
    /\ \/ pc \in {"constructed", "failed"}
       \/ pc \in {"returned", "done"} /\ done = DOMAIN tasks
    /\ pc' = "deleted"
    /\ prefix' = NoPrefix
    /\ environ' = RestoredConfig(orig_config, environ)
    /\ UNCHANGED <<traits, orig_config, running, calls, error, filter_loaded, packed,
                   tasks, done, output>>

Next ==
    \/ __init__
    \/ post_build_known
    \/ post_build_bail
    \/ create_env
    \/ \E ok \in BOOLEAN : single_call_returns(ok)
    \/ \E ok \in BOOLEAN : create_returns(ok)
    \/ \E ok \in BOOLEAN : install_returns(ok)
    \/ \E ok \in BOOLEAN : load_filter(ok)
    \/ \E ok \in BOOLEAN : pack_environment(ok)
    \/ post_build_env_extensions
    \/ post_build_fixed
    \/ post_build_patch
    \/ \E i \in DOMAIN tasks : run_task(i)
    \/ __del__

Init == InitBuild /\ DedupeIdle

Spec == Init /\ [][Next]_vars

NextDedupe == Dedupe

InitD == InitDedupe /\ BuildIdle

SpecDedupe == InitD /\ [][NextDedupe]_vars

----------------------------------------------------------------------------
(* Properties of create_env and post_build, checked under Spec.            *)

Priority == <<"mamba.api", "mamba", "micromamba", "conda">>

Available(b) ==
    CASE b = "mamba.api" -> flags.MAMBA_PYTHON_AVAILABLE
      [] b = "mamba" -> flags.MAMBA_AVAILABLE
      [] b = "micromamba" -> flags.MICROMAMBA_AVAILABLE
      [] b = "conda" -> flags.CONDA_AVAILABLE

\* b is available and nothing before it in the priority order is.
IsFirstAvailable(b) ==
    \E i \in DOMAIN Priority :
        /\ Priority[i] = b
        /\ Available(b)
        /\ \A j \in 1..(i - 1) : ~Available(Priority[j])

Invoked == {calls[i].backend : i \in DOMAIN calls}
           \cup (IF running = NoCall THEN {} ELSE {running.backend})

InsideOrPastProvisioning ==
    pc \in {"create_env", "load_filter", "pack", "harvest", "fixed", "patch", "done"}

\* C1: create_env invokes only the highest-priority available backend (the
\* in-process mamba binding, else mamba, else micromamba, else conda), whatever
\* the four flags are; with no flag set it invokes nothing and fails with its
\* RuntimeError.
C1_BackendSelection ==
    /\ \A b \in Invoked : IsFirstAvailable(b)
    /\ (InsideOrPastProvisioning /\ pc # "create_env") => Invoked # {}
    /\ (\A b \in Range(Priority) : ~Available(b)) =>
          /\ Invoked = {}
          /\ ~InsideOrPastProvisioning
          /\ error \in {None, "RuntimeError"}
          /\ pc = "failed" => error = "RuntimeError"

\* A lower-priority backend is available too, and micromamba was the one run.
C1_Witness ==
    /\ ~flags.MAMBA_PYTHON_AVAILABLE /\ ~flags.MAMBA_AVAILABLE
    /\ flags.MICROMAMBA_AVAILABLE /\ flags.CONDA_AVAILABLE
    /\ calls = <<[backend |-> "micromamba", cmd |-> "create", ok |-> TRUE]>>
    /\ pc = "done"

\* C5: with no extra package and no version override post_build yields only
\* the copy tasks of the pre-bundled kernel plugin found among the host's
\* labextensions and ends: no backend is invoked, no filter is loaded, nothing
\* is packed, nothing is created under the prefix, and no other task is yielded.
C5_EarlyExit ==
    (packages = <<>> /\ xeus_python_version = "") =>
        /\ Invoked = {}
        /\ ~filter_loaded
        /\ ~packed
        /\ pc \in {"unborn", "constructed", "bail_check", "returned", "deleted"}
        /\ pc # "unborn" => prefix = NoPrefix
        /\ error = None
        /\ \A i \in DOMAIN tasks :
              tasks[i] = safe_copy_extension("host", JUPYTERLITE_XEUS_PYTHON)
        /\ Len(tasks) <= Cardinality({i \in DOMAIN host_extensions :
                                         host_extensions[i] = JUPYTERLITE_XEUS_PYTHON})

\* post_build returned early with the one kernel copy task, which then ran.
C5_Witness ==
    /\ packages = <<>> /\ xeus_python_version = ""
    /\ pc = "returned"
    /\ Len(tasks) = 1
    /\ done = {1}

IsCopyExt(t) == t.name[1] = "xeus:copy:ext"
IsPatch(t) == t.name[1] = "patch:xeus"

\* C6: the patch:xeus action never runs before every xeus:copy:ext task of
\* the same post_build has run.
C6_PatchAfterCopies ==
    \A i \in DOMAIN tasks :
        (IsPatch(tasks[i]) /\ i \in done) =>
            \A j \in DOMAIN tasks : IsCopyExt(tasks[j]) => j \in done

\* C7: whatever order the tasks ran in, once all have run the four fixed
\* artifacts under the kernel's static directory hold the packed content.
C7_PackedArtifactsSurvive ==
    (pc = "done" /\ done = DOMAIN tasks) =>
        \A f \in FixedFiles : output.static[f] = "packed"

\* C8 as claimed: while a create or install invocation of mamba or conda is
\* running, the prefix holds the .condarc and CONDARC points at it.
C8_CondarcDuringCalls ==
    (running # NoCall /\ running.backend \in WithConfig) =>
        /\ environ = CondarcPath
        /\ prefix.condarc = PLATFORM

\* C8 amended: while the install invocation of mamba or conda is running,
\* the prefix holds the .condarc pinning subdir to the platform and CONDARC
\* points at it; the create invocation runs before, with CONDARC as it was
\* when the instance was constructed.
C8_CondarcDuringInstall ==
    (running # NoCall /\ running.backend \in WithConfig) =>
        IF running.cmd = "install"
        THEN /\ environ = CondarcPath
             /\ prefix.exists
             /\ prefix.condarc = PLATFORM
        ELSE /\ environ = condarc0
             /\ prefix.condarc = None

\* conda's install is running, and CONDARC had another value before.
C8_Witness ==
    /\ running = [backend |-> "conda", cmd |-> "install"]
    /\ condarc0 = UserCondarc
    /\ environ = CondarcPath

\* C9: once the instance is torn down CONDARC has the value it had when the
\* instance was constructed, and is unset if it was unset then.
C9_CondarcRestored ==
    pc = "deleted" => environ = condarc0

\* CONDARC was unset, provisioning with conda set it, the instance is gone.
C9_Witness ==
    /\ pc = "deleted"
    /\ condarc0 = None
    /\ \E i \in DOMAIN calls : calls[i] = [backend |-> "conda", cmd |-> "create", ok |-> TRUE]
    /\ environ = None

EnvTask(t) == t.src # "host"

\* C10: a failed backend invocation is the last one made (no retry, no
\* install after a failed create), after it no filter is loaded, nothing is
\* packed, post_build has ended with the error and has yielded no task but
\* the pre-bundled plugin's copy; and no invocation is ever made twice.
C10_FailureIsFatal ==
    /\ \A i \in DOMAIN calls :
          ~calls[i].ok =>
              /\ i = Len(calls)
              /\ running = NoCall
              /\ ~filter_loaded
              /\ ~packed
              /\ pc \in {"failed", "deleted"}
              /\ error = "CalledProcessError"
              /\ \A k \in DOMAIN tasks : ~EnvTask(tasks[k])
              /\ done = {}
    /\ \A i, j \in DOMAIN calls :
          (calls[i].backend = calls[j].backend /\ calls[i].cmd = calls[j].cmd) => i = j

\* conda's create failed while the kernel's copy task had been yielded.
C10_Witness ==
    /\ calls = <<[backend |-> "conda", cmd |-> "create", ok |-> FALSE]>>
    /\ pc = "failed"
    /\ Len(tasks) = 1

----------------------------------------------------------------------------
(* Properties of dedupe_federated_extensions, checked under SpecDedupe.    *)

HasList == FEDERATED_EXTENSIONS \in DOMAIN input
Inp == input[FEDERATED_EXTENSIONS]
Out == config[FEDERATED_EXTENSIONS]
OnDisk(ext) == <<ext.name, ext.load>> \in files

\* C2: after a pass over a manifest with a federated_extensions list, the
\* list holds each name at most once, only entries of the input whose file
\* exists under the output extensions root, no input entry whose file is
\* missing, and is sorted by name.
C2_DedupedManifest ==
    (passes >= 1 /\ HasList) =>
        /\ \A i, j \in DOMAIN Out : Out[i].name = Out[j].name => i = j
        /\ \A i \in DOMAIN Out : OnDisk(Out[i]) /\ Out[i] \in Range(Inp)
        /\ \A i \in DOMAIN Inp : ~OnDisk(Inp[i]) => Inp[i] \notin Range(Out)
        /\ \A i, j \in DOMAIN Out : i < j => Ord(Out[i].name) < Ord(Out[j].name)

\* An unsorted list with a duplicate name, one of whose files is missing.
C2_Witness ==
    /\ passes = 1
    /\ HasList
    /\ Inp = <<[name |-> "c", load |-> "x.js"], [name |-> "a", load |-> "x.js"],
               [name |-> "a", load |-> "y.js"]>>
    /\ files = {<<"c", "x.js">>, <<"a", "y.js">>}
    /\ Out = <<[name |-> "a", load |-> "y.js"], [name |-> "c", load |-> "x.js"]>>

\* C3: when two or more entries of the input list share a name and all their
\* files exist, exactly one entry of that name survives, the last of the input.
C3_LastWins ==
    (passes >= 1 /\ HasList) =>
        \A n \in Names :
            LET same == {i \in DOMAIN Inp : Inp[i].name = n}
                last == CHOOSE i \in same : \A k \in same : k <= i
            IN  (Cardinality(same) >= 2 /\ \A i \in same : OnDisk(Inp[i])) =>
                    /\ Cardinality({j \in DOMAIN Out : Out[j].name = n}) = 1
                    /\ \A j \in DOMAIN Out : Out[j].name = n => Out[j] = Inp[last]

\* Two entries named a around one named b, all files there: the later a stays.
C3_Witness ==
    /\ passes = 1
    /\ HasList
    /\ Inp = <<[name |-> "a", load |-> "x.js"], [name |-> "b", load |-> "x.js"],
               [name |-> "a", load |-> "y.js"]>>
    /\ files = {<<"a", "x.js">>, <<"a", "y.js">>, <<"b", "x.js">>}
    /\ Out = <<[name |-> "a", load |-> "y.js"], [name |-> "b", load |-> "x.js"]>>

\* C4: a second pass over the result of the first, with the same output tree,
\* leaves the manifest as the first pass left it; a manifest without the
\* federated_extensions key is never changed.
C4_Idempotent ==
    /\ passes >= 2 => config = prev
    /\ ~HasList => config = input

\* The first pass changed the list, the second did not.
C4_Witness ==
    /\ passes = 2
    /\ HasList
    /\ Inp # prev[FEDERATED_EXTENSIONS]
    /\ Len(Out) = 2
    /\ config = prev

====
